---- MODULE Spec2Model ----
(***************************************************************************)
(* Document lifecycle of factupe: the server actions of                    *)
(* apps/web/actions/documents.ts (createInvoice, createNote,               *)
(* sendDocumentToSunat, voidDocument, resendDocument) running as           *)
(* interleaved request handlers and background tasks over one database,    *)
(* and the three SUNAT transport adapters (direct, nubefact, mock).         *)
(*                                                                         *)
(* Every database statement (select, update, insert, transaction) is one   *)
(* atomic step; the steps of different handlers interleave freely.         *)
(* Time is counted in half days.                                           *)
(***************************************************************************)
EXTENDS Integers, Sequences, FiniteSets, TLC

VARIABLES
    docs,       \* documents table: id -> row
    events,     \* document_events table: id -> number of events of each type
    series,     \* document_series table: <<tenant, series>> -> currentNumber
    allocated,  \* numbers returned by getNextCorrelative, per series row
    sends,      \* executions of sendDocumentToSunat
    voids,      \* executions of voidDocument
    notes,      \* executions of createNote
    ret,        \* result the last create, get or resend call returned
    now,        \* Date.now(), in half days
    call,       \* the last call of an adapter's public method
    request,    \* a sendDocument call of an adapter, followed step by step
    calc,       \* the last call of a pure function: its input and its result
    session,    \* the session of the user whose requests SpecSession follows
    connections,  \* SSEConnectionManager.connections: tenant -> set of controllers
    controllers,  \* the stream controllers: closed or not, and what was enqueued
    lastEventId,  \* number of events sendEvent has generated
    client        \* a RealtimeClient in the browser, and its pending timers

vars == <<docs, events, series, allocated, sends, voids, notes, ret, now, call,
          request, calc, session,
                 connections, controllers, lastEventId, client>>

----------------------------------------------------------------------------
(* Bounds of the model *)

MaxSends == 2      \* executions of sendDocumentToSunat
MaxVoids == 1      \* executions of voidDocument
MaxNotes == 2      \* executions of createNote that pass the reference check
MaxDocs == 3       \* rows of the documents table
MaxNumber == 3     \* cap of a series' currentNumber
MaxNow == 2        \* last clock value, in half days after the start
MaxItems == 1      \* most line items of a document handed to an adapter

HalfDaysPerDay == 2
VoidWindowDays == 7

Tenants == {"t1", "t2"}
DocIds == 1..MaxDocs
SeriesCodes == {"F001", "FC01"}
NoteTypes == {"07", "08"}

\* SunatResponseStatus of the adapters' results
SunatStatuses == {"accepted", "rejected", "exception", "observed", "pending"}

None == "none"

----------------------------------------------------------------------------
(* Transport adapters.  An adapter result records whether the method threw,
   whether a network request was issued, and the SunatResponse fields. *)

Result(success, status, code, ticket, net) ==
    [threw |-> FALSE, net |-> net, success |-> success, status |-> status,
     responseCode |-> code, ticket |-> ticket]

Thrown(net) ==
    [threw |-> TRUE, net |-> net, success |-> FALSE, status |-> None,
     responseCode |-> None, ticket |-> FALSE]

\* CDR response codes tried; -1 stands for a CDR without a numeric code,
\* which parseCDR reports as 'ERROR', and -2 for the code written '00',
\* which parseInt reads as 0 and which is not the string '0'
CdrCodes == {-2, -1, 0, 1, 99, 100, 1999, 2000, 3999, 4000, 4001}

\* What the network does with a SOAP request
SoapOutcomes ==
    [kind : {"network_error", "http_error", "soap_fault", "ticket", "empty"},
     code : {0}]
    \cup [kind : {"cdr"}, code : CdrCodes]
    \cup [kind : {"status_code"}, code : {0, 98}]

\* What the network does with a Nubefact REST request
RestOutcomes ==
    [kind : {"network_error", "http_error_json", "http_error_nojson",
             "ok_nojson", "ok_errors", "ok_accepted", "ok_not_accepted"},
     code : {0}]

TransportFailures ==
    {"network_error", "http_error", "soap_fault",
     "http_error_json", "http_error_nojson"}

\* Documents as an adapter sees them
AdapterDocs ==
    [hasRuc : BOOLEAN, hasCustomer : BOOLEAN, nItems : 0..MaxItems,
     type : {"01", "07", "99"}]

CodeString(code) ==
    IF code = -1 THEN "ERROR" ELSE IF code = -2 THEN "00" ELSE ToString(code)

\* BaseSunatAdapter.validateDocument: TRUE when it returns, FALSE when it throws
validateDocument(document) ==
    /\ document.hasRuc
    /\ document.hasCustomer
    /\ document.nItems # 0

ShiftedResponseCode(code) ==
    IF code = 0 THEN "accepted"
    ELSE IF code >= 100 /\ code <= 2000 THEN "exception"
    ELSE IF code > 2000 /\ code <= 4000 THEN "rejected"
    ELSE IF code > 4000 THEN "observed"
    ELSE "exception"

\* DirectAdapter.mapResponseCode
mapResponseCode(code) ==
    IF code = 0 THEN "accepted"
    ELSE IF code >= 100 /\ code <= 1999 THEN "exception"
    ELSE IF code >= 2000 /\ code <= 3999 THEN "rejected"
    ELSE IF code >= 4000 THEN "observed"
    ELSE "exception"

\* DirectAdapter.handleError
handleError(net) == Result(FALSE, "exception", "ERROR", FALSE, net)

\* SoapClient.executeRequest followed by SoapClient.parseResponse:
\* TRUE when the pair throws
SoapThrows(out) == out.kind \in {"network_error", "http_error", "soap_fault"}

\* DirectAdapter.sendDocument
DirectSendDocument(document, certOk, out) ==
    IF ~certOk THEN handleError(FALSE)
    ELSE IF document.type \notin {"01", "03", "07", "08"} THEN handleError(FALSE)
    ELSE IF SoapThrows(out) THEN handleError(TRUE)
    ELSE IF out.kind = "cdr"
         THEN Result(out.code = 0, mapResponseCode(out.code),
                     CodeString(out.code), FALSE, TRUE)
    ELSE IF out.kind = "ticket"
         THEN Result(TRUE, "pending", None, TRUE, TRUE)
    ELSE handleError(TRUE)

\* DirectAdapter.queryStatus
DirectQueryStatus(out) ==
    IF SoapThrows(out) THEN Result(FALSE, "exception", "ERROR", FALSE, TRUE)
    ELSE IF out.kind = "cdr"
         THEN Result(FALSE, mapResponseCode(out.code), CodeString(out.code),
                     FALSE, TRUE)
    ELSE IF out.kind = "status_code"
         THEN Result(FALSE, IF out.code = 0 THEN "pending" ELSE "exception",
                     CodeString(out.code), FALSE, TRUE)
    ELSE Result(FALSE, "exception", "ERROR", FALSE, TRUE)

\* DirectAdapter.voidDocument
DirectVoidDocument(certOk, out) ==
    IF ~certOk THEN handleError(FALSE)
    ELSE IF SoapThrows(out) THEN handleError(TRUE)
    ELSE IF out.kind = "ticket" THEN Result(TRUE, "pending", None, TRUE, TRUE)
    ELSE handleError(TRUE)

\* The status NubefactAdapter reports when the response is not ok or the
\* body lists errors
NubefactErrorStatus == "rejected"

\* NubefactAdapter.sendDocument
NubefactSendDocument(document, out) ==
    IF out.kind = "network_error"
        THEN Result(FALSE, "exception", "ERROR", FALSE, TRUE)
    ELSE IF out.kind \in {"http_error_nojson", "ok_nojson"}
        THEN Result(FALSE, "exception", "ERROR", FALSE, TRUE)
    ELSE IF out.kind \in {"http_error_json", "ok_errors"}
        THEN Result(FALSE, NubefactErrorStatus, "ERROR", FALSE, TRUE)
    ELSE IF out.kind = "ok_accepted"
        THEN Result(TRUE, "accepted", "0", FALSE, TRUE)
    ELSE Result(FALSE, "rejected", "0", FALSE, TRUE)

\* NubefactAdapter.queryStatus
NubefactQueryStatus == Result(FALSE, "accepted", "0", FALSE, FALSE)

\* NubefactAdapter.voidDocument
NubefactVoidDocument(out) ==
    IF out.kind = "network_error"
        THEN Result(FALSE, "exception", "ERROR", FALSE, TRUE)
    ELSE IF out.kind \in {"http_error_nojson", "ok_nojson"}
        THEN Result(FALSE, "exception", "ERROR", FALSE, TRUE)
    ELSE IF out.kind \in {"http_error_json", "ok_errors"}
        THEN Result(FALSE, NubefactErrorStatus, "ERROR", FALSE, TRUE)
    ELSE Result(TRUE, "accepted", "0", FALSE, TRUE)

\* MockAdapterConfig.forceStatus
ForceStatuses == {None, "accepted", "rejected", "exception"}

\* MockAdapter.sendDocument
MockSendDocument(document, forceStatus) ==
    IF ~validateDocument(document) THEN Thrown(FALSE)
    ELSE IF forceStatus = "rejected"
        THEN Result(FALSE, "rejected", "2010", FALSE, FALSE)
    ELSE IF forceStatus = "exception"
        THEN Result(FALSE, "exception", "EXC001", FALSE, FALSE)
    ELSE Result(TRUE, "accepted", "0", FALSE, FALSE)

\* MockAdapter.queryStatus
MockQueryStatus == Result(FALSE, "accepted", "0", FALSE, FALSE)

\* MockAdapter.voidDocument
MockVoidDocument == Result(TRUE, "accepted", "0", TRUE, FALSE)

----------------------------------------------------------------------------
(* The database at start: tenant t1 with its series rows and customers, and
   one draft invoice F001-1 issued seven days ago. *)

Providers == {"mock", "direct", "nubefact", "efact"}

SeriesRows == {<<"t1", "F001">>, <<"t1", "FC01">>}

Customers ==
    [c1 |-> [tenantId |-> "t1", documentType |-> "6"],
     c2 |-> [tenantId |-> "t1", documentType |-> "1"],
     c3 |-> [tenantId |-> "t2", documentType |-> "6"]]

CustomerIds == DOMAIN Customers

EventTypes == {"created", "accepted", "rejected", "voided"}
NoEvents == [e \in EventTypes |-> 0]
\* insert into document_events values (documentId, eventType)
Insert(rows, eventType) == [rows EXCEPT ![eventType] = @ + 1]

IdleSend == [pc |-> "idle", doc |-> 0, success |-> FALSE, status |-> None]
IdleVoid == [pc |-> "idle", doc |-> 0, error |-> None, elapsed |-> 0]
IdleNote == [pc |-> "idle", tenantId |-> None, ref |-> 0, series |-> None,
             number |-> 0]
NoOutcome == [kind |-> None, code |-> 0]
NoCall == [adapter |-> None, method |-> None,
           document |-> [hasRuc |-> FALSE, hasCustomer |-> FALSE,
                         nItems |-> 0, type |-> None],
           certOk |-> FALSE, forceStatus |-> None,
           out |-> NoOutcome, result |-> Thrown(FALSE)]

NoRequest == [pc |-> "idle", adapter |-> None, certOk |-> FALSE,
              document |-> NoCall.document, result |-> Thrown(FALSE)]
NoCalc == [fn |-> None]

\* the stream controllers that may exist
Controllers == {"k1", "k2"}

\* new Map(): no tenant has an entry
NoConnections == <<>>

\* a controller no stream has started on: nothing enqueued, not closed
NewController == [tenantId |-> None, closed |-> FALSE, enqueued |-> {}]

\* new RealtimeClient(url); userCall is the last of connect() and disconnect()
\* the page called, timers the pending setTimeout callbacks, opened the
\* number of EventSource objects created
NewClient ==
    [eventSource |-> None, reconnectAttempts |-> 0, timers |-> 0,
     opened |-> 0, userCall |-> None]

\* no stream and no client activity
RealtimeIdle ==
    /\ connections = NoConnections
    /\ controllers = [k \in Controllers |-> NewController]
    /\ lastEventId = 0
    /\ client = NewClient

\* the invoice F001-1 of tenant t1, issued seven days before the start;
\* no validateTotals call of the program has returned valid for it
InitialDocument ==
    [tenantId |-> "t1", type |-> "01", series |-> "F001", number |-> 1,
     status |-> "draft", sunatStatus |-> None,
     issueDate |-> 0 - VoidWindowDays * HalfDaysPerDay,
     totalsChecked |-> FALSE]

Init ==
    /\ docs = (1 :> InitialDocument)
    /\ events = [d \in DocIds |-> IF d = 1 THEN Insert(NoEvents, "created") ELSE NoEvents]
    /\ series = [r \in SeriesRows |-> IF r[2] = "F001" THEN 1 ELSE 0]
    /\ allocated = [r \in SeriesRows |-> IF r[2] = "F001" THEN <<1>> ELSE <<>>]
    /\ sends = [i \in 1..MaxSends |-> IdleSend]
    /\ voids = [i \in 1..MaxVoids |-> IdleVoid]
    /\ notes = [i \in 1..MaxNotes |-> IdleNote]
    /\ ret = [op |-> None, ok |-> FALSE, error |-> None]
    /\ now = 0
    /\ call = NoCall
    /\ request = NoRequest
    /\ calc = NoCalc
    /\ session = [tenantId |-> "t1", role |-> "admin"]
    /\ RealtimeIdle

----------------------------------------------------------------------------
(* Helpers *)

FreeSlots(slots) == {i \in DOMAIN slots : slots[i].pc = "idle"}
HasFree(slots) == FreeSlots(slots) # {}
FirstFree(slots) == CHOOSE i \in FreeSlots(slots) : \A j \in FreeSlots(slots) : i <= j

\* after(async () => sendDocumentToSunat(id)): a new execution at its first statement
Schedule(slots, d) ==
    [slots EXCEPT ![FirstFree(slots)] = [IdleSend EXCEPT !.pc = "load", !.doc = d]]

\* select ... from documents where id = d and tenantId = tenantId
FindDoc(d, tenantId) == d \in DOMAIN docs /\ docs[d].tenantId = tenantId

Proceeds(op, error) == [op |-> op, ok |-> TRUE, error |-> None]

\* return { success: false, error }
Failure(op, error) == [op |-> op, ok |-> FALSE, error |-> error]
Success(op) == [op |-> op, ok |-> TRUE, error |-> None]

----------------------------------------------------------------------------
(* getNextCorrelative: one UPDATE ... SET currentNumber = currentNumber + 1
   ... RETURNING statement *)

StaleCurrentNumber(currentNumber) == currentNumber

\* the SET expression of the update
NextCurrentNumber(currentNumber) == currentNumber + 1

\* the rows the WHERE clause of the update selects
SeriesFound(tenantId, seriesCode) == <<tenantId, seriesCode>> \in SeriesRows

\* the series table after the update
SeriesAfterUpdate(tenantId, seriesCode) ==
    [series EXCEPT ![<<tenantId, seriesCode>>] = NextCurrentNumber(@)]

\* the number the update returns
getNextCorrelative(tenantId, seriesCode) ==
    SeriesAfterUpdate(tenantId, seriesCode)[<<tenantId, seriesCode>>]

----------------------------------------------------------------------------
(* createInvoice.  The totals handed to validateTotals carry no items, so its
   loop over document.items throws and the catch block returns the error:
   every call that got a correlative number fails after the allocation. *)

\* validateTotals on the argument createInvoice builds: TRUE when it throws
validateTotalsThrows(hasItems) == ~hasItems

\* whether the object createInvoice passes to validateTotals has an items field
InvoiceTotalsHaveItems == FALSE

\* the lookup of the tenant's default series, made when the input names no
\* series: it filters on documentSeries.isDefault, a column the table does
\* not have, so it either finds no row or fails in the query
NoDefaultSeries(what) ==
    {IF what = "documento"
         THEN "No hay serie configurada para este tipo de documento"
         ELSE "No hay serie configurada para notas",
     "Error al crear " \o what}

NoTypeNeedsRuc(type) == FALSE

\* the document types that require a customer identified by a RUC
NeedsRuc(type) == type = "01"

\* input.sendToSunat is read after the insert only
createInvoice(tenantId, type, customerId, seriesCode) ==
    /\ IF ~(customerId \in CustomerIds /\ Customers[customerId].tenantId = tenantId)
       THEN /\ ret' = Failure("createInvoice", "Cliente no encontrado")
            /\ UNCHANGED <<series, allocated, docs, events, sends>>
       ELSE IF NeedsRuc(type) /\ Customers[customerId].documentType # "6"
       THEN /\ ret' = Failure("createInvoice", "Facturas solo pueden emitirse a clientes con RUC")
            /\ UNCHANGED <<series, allocated, docs, events, sends>>
       ELSE IF seriesCode = None
       THEN /\ ret' \in {Failure("createInvoice", e) : e \in NoDefaultSeries("documento")}
            /\ UNCHANGED <<series, allocated, docs, events, sends>>
       ELSE IF ~SeriesFound(tenantId, seriesCode)
       THEN /\ ret' = Failure("createInvoice", "Error al crear documento")
            /\ UNCHANGED <<series, allocated, docs, events, sends>>
       ELSE /\ series[<<tenantId, seriesCode>>] < MaxNumber
            /\ series' = SeriesAfterUpdate(tenantId, seriesCode)
            /\ allocated' = [allocated EXCEPT ![<<tenantId, seriesCode>>] =
                                Append(@, getNextCorrelative(tenantId, seriesCode))]
            /\ IF validateTotalsThrows(InvoiceTotalsHaveItems)
               THEN /\ ret' = Failure("createInvoice", "Error al crear documento")
                    /\ UNCHANGED <<docs, events, sends>>
               ELSE \E send \in BOOLEAN :
                    LET id == Cardinality(DOMAIN docs) + 1 IN
                    /\ id \in DocIds
                    /\ send => HasFree(sends)
                    /\ docs' = docs @@ (id :> [tenantId |-> tenantId, type |-> type,
                                   series |-> seriesCode,
                                   number |-> getNextCorrelative(tenantId, seriesCode),
                                   status |-> "draft", sunatStatus |-> None,
                                   issueDate |-> now, totalsChecked |-> TRUE])
                    /\ events' = [events EXCEPT ![id] = Insert(@, "created")]
                    /\ sends' = IF send THEN Schedule(sends, id) ELSE sends
                    /\ ret' = Success("createInvoice")
    /\ UNCHANGED <<voids, notes, now, call,
                 request, calc, session,
                 connections, controllers, lastEventId, client>>

----------------------------------------------------------------------------
(* createNote *)

AnyStatusReferable(status) == TRUE

\* the status a document must have to be the reference of a note
Referable(status) == status = "accepted"

\* the select of the reference document, its checks and the series lookup
NoteCheck(i, tenantId, ref, seriesCode) ==
    /\ HasFree(notes)
    /\ i = FirstFree(notes)
    /\ IF ~FindDoc(ref, tenantId)
       THEN /\ ret' = Failure("createNote", "Documento de referencia no encontrado")
            /\ UNCHANGED notes
       ELSE IF ~Referable(docs[ref].status)
       THEN /\ ret' = Failure("createNote",
                              "Solo se pueden emitir notas de documentos aceptados")
            /\ UNCHANGED notes
       ELSE IF seriesCode = None
       THEN /\ ret' \in {Failure("createNote", e) : e \in NoDefaultSeries("nota")}
            /\ UNCHANGED notes
       ELSE /\ notes' = [notes EXCEPT ![i] =
                    [IdleNote EXCEPT !.pc = "alloc", !.tenantId = tenantId,
                                     !.ref = ref, !.series = seriesCode]]
            /\ UNCHANGED ret
    /\ UNCHANGED <<docs, events, series, allocated, sends, voids, now, call,
                 request, calc, session,
                 connections, controllers, lastEventId, client>>

\* getNextCorrelative(tenantId, seriesCode)
NoteAlloc(i) ==
    /\ notes[i].pc = "alloc"
    /\ LET n == notes[i] IN
       IF ~SeriesFound(n.tenantId, n.series)
       THEN /\ notes' = [notes EXCEPT ![i] = [IdleNote EXCEPT !.pc = "done"]]
            /\ ret' = Failure("createNote", "Error al crear nota")
            /\ UNCHANGED <<series, allocated>>
       ELSE /\ series[<<n.tenantId, n.series>>] < MaxNumber
            /\ series' = SeriesAfterUpdate(n.tenantId, n.series)
            /\ allocated' = [allocated EXCEPT ![<<n.tenantId, n.series>>] =
                                Append(@, getNextCorrelative(n.tenantId, n.series))]
            /\ notes' = [notes EXCEPT ![i].pc = "insert",
                            ![i].number = getNextCorrelative(n.tenantId, n.series)]
            /\ UNCHANGED ret
    /\ UNCHANGED <<docs, events, sends, voids, now, call,
                 request, calc, session,
                 connections, controllers, lastEventId, client>>

\* the transaction inserting the document of input type `type`, its items
\* and the 'created' event, then after(sendDocumentToSunat) when the
\* input's sendToSunat is set
NoteInsert(i, type, send, commit) ==
    /\ notes[i].pc = "insert"
    /\ LET n == notes[i]
           id == Cardinality(DOMAIN docs) + 1
       IN IF commit
          THEN /\ id \in DocIds
               /\ send => HasFree(sends)
               /\ docs' = docs @@ (id :> [tenantId |-> n.tenantId, type |-> type,
                                          series |-> n.series, number |-> n.number,
                                          status |-> "draft", sunatStatus |-> None,
                                          issueDate |-> now,
                                          totalsChecked |-> FALSE])
               /\ events' = [events EXCEPT ![id] = Insert(@, "created")]
               /\ sends' = IF send THEN Schedule(sends, id) ELSE sends
               /\ ret' = Success("createNote")
          ELSE /\ ret' = Failure("createNote", "Error al crear nota")
               /\ UNCHANGED <<docs, events, sends>>
    /\ notes' = [notes EXCEPT ![i] = [IdleNote EXCEPT !.pc = "done"]]
    /\ UNCHANGED <<series, allocated, voids, now, call,
                 request, calc, session,
                 connections, controllers, lastEventId, client>>

----------------------------------------------------------------------------
(* sendDocumentToSunat *)

\* an exported server action: any caller may start it for any document id
SendCall(d) ==
    /\ HasFree(sends)
    /\ sends' = Schedule(sends, d)
    /\ UNCHANGED <<docs, events, series, allocated, voids, notes, ret, now, call,
                 request, calc, session,
                 connections, controllers, lastEventId, client>>

\* the selects of the document, its tenant, customer and items, which read
\* only columns no action writes, and then
\* update documents set status = 'pending' where id = documentId
SendMarkPending(i) ==
    /\ sends[i].pc = "load"
    /\ IF sends[i].doc \in DOMAIN docs
       THEN /\ docs' = [docs EXCEPT ![sends[i].doc].status = "pending"]
            /\ sends' = [sends EXCEPT ![i].pc = "call"]
       ELSE /\ sends' = [sends EXCEPT ![i].pc = "catch"]
            /\ UNCHANGED docs
    /\ UNCHANGED <<events, series, allocated, voids, notes, ret, now, call,
                 request, calc, session,
                 connections, controllers, lastEventId, client>>

\* createAdapter: TRUE when it returns an adapter, FALSE when it throws
createAdapter(provider, configComplete) ==
    \/ provider = "mock"
    \/ provider \in {"direct", "nubefact"} /\ configComplete

\* the document sendDocumentToSunat hands to the adapter: the row with its
\* items, its customer (null when the row has none) and its tenant
DocumentWithItems(type, hasCustomer, nItems) ==
    [hasRuc |-> TRUE, hasCustomer |-> hasCustomer, nItems |-> nItems, type |-> type]

\* adapter.sendDocument(documentWithItems) for the tenant's provider
AdapterSend(provider, document, certOk, soap, rest) ==
    IF provider = "direct" THEN DirectSendDocument(document, certOk, soap)
    ELSE IF provider = "nubefact" THEN NubefactSendDocument(document, rest)
    ELSE MockSendDocument(document, None)

\* what createAdapter(...) followed by adapter.sendDocument(...) can yield
\* for a document: "throws", or the success flag and status of the response.
\* The config object the source hands to createAdapter ends in
\* "// ... other config": whether it carries the fields the direct and the
\* nubefact adapter require is left open, so the answer may come from any
\* adapter behind the SunatAdapter interface.
SendOutcomes ==
    [type \in {"01", "03"} \cup NoteTypes |->
        {IF ~createAdapter(p, cc) THEN <<"throws", FALSE, None>>
         ELSE LET r == AdapterSend(p, DocumentWithItems(type, hc, n), co, so, ro)
              IN IF r.threw THEN <<"throws", FALSE, None>>
                 ELSE <<"response", r.success, r.status>> :
            p \in Providers, cc \in BOOLEAN, hc \in BOOLEAN, n \in 0..MaxItems,
            co \in BOOLEAN, so \in SoapOutcomes, ro \in RestOutcomes}]

\* createAdapter(...) and adapter.sendDocument(...)
SendCallAdapter(i, o) ==
    /\ sends[i].pc = "call"
    /\ o \in SendOutcomes[docs[sends[i].doc].type]
    /\ sends' = [sends EXCEPT ![i] =
            IF o[1] = "throws" THEN [@ EXCEPT !.pc = "catch"]
            ELSE [@ EXCEPT !.pc = "persist", !.success = o[2], !.status = o[3]]]
    /\ UNCHANGED <<docs, events, series, allocated, voids, notes, ret, now, call,
                 request, calc, session,
                 connections, controllers, lastEventId, client>>

\* the status the update after the adapter's answer stores
PersistedStatus(success, status) == IF success THEN "accepted" ELSE "rejected"

\* update documents set status, sunatStatus, ... where id = documentId
SendPersist(i) ==
    /\ sends[i].pc = "persist"
    /\ docs' = [docs EXCEPT
                   ![sends[i].doc].status =
                        PersistedStatus(sends[i].success, sends[i].status),
                   ![sends[i].doc].sunatStatus = sends[i].status]
    /\ sends' = [sends EXCEPT ![i].pc = "event"]
    /\ UNCHANGED <<events, series, allocated, voids, notes, ret, now, call,
                 request, calc, session,
                 connections, controllers, lastEventId, client>>

\* insert into document_events, then sendEvent
SendEvent(i) ==
    /\ sends[i].pc = "event"
    /\ events' = [events EXCEPT ![sends[i].doc] =
                     Insert(@, IF sends[i].success THEN "accepted" ELSE "rejected")]
    /\ sends' = [sends EXCEPT ![i] = [IdleSend EXCEPT !.pc = "done"]]
    /\ UNCHANGED <<docs, series, allocated, voids, notes, ret, now, call,
                 request, calc, session,
                 connections, controllers, lastEventId, client>>

\* the catch block: update ... status = 'rejected', sunatStatus = 'exception'
SendCatch(i) ==
    /\ sends[i].pc = "catch"
    /\ docs' = IF sends[i].doc \in DOMAIN docs
               THEN [docs EXCEPT ![sends[i].doc].status = "rejected",
                                 ![sends[i].doc].sunatStatus = "exception"]
               ELSE docs
    /\ sends' = [sends EXCEPT ![i] = [IdleSend EXCEPT !.pc = "thrown"]]
    /\ UNCHANGED <<events, series, allocated, voids, notes, ret, now, call,
                 request, calc, session,
                 connections, controllers, lastEventId, client>>

----------------------------------------------------------------------------
(* resendDocument *)

AnyStatusResendable(status) == TRUE

\* ['draft', 'rejected'].includes(doc.status)
Resendable(status) == status \in {"draft", "rejected"}

resendDocument(tenantId, d) ==
    /\ IF ~FindDoc(d, tenantId)
       THEN /\ ret' = Failure("resendDocument", "Documento no encontrado")
            /\ UNCHANGED sends
       ELSE IF ~Resendable(docs[d].status)
       THEN /\ ret' = Failure("resendDocument",
                        "Solo se pueden reenviar documentos en borrador o rechazados")
            /\ UNCHANGED sends
       ELSE /\ HasFree(sends)
            /\ sends' = Schedule(sends, d)
            /\ ret' = Success("resendDocument")
    /\ UNCHANGED <<docs, events, series, allocated, voids, notes, now, call,
                 request, calc, session,
                 connections, controllers, lastEventId, client>>

----------------------------------------------------------------------------
(* voidDocument *)

\* Math.floor((Date.now() - issueDate.getTime()) / (1000 * 60 * 60 * 24))
daysSinceIssue(elapsed) == elapsed \div HalfDaysPerDay

\* the select of the document and the checks of its status and age
VoidCheck(i, tenantId, d) ==
    /\ HasFree(voids)
    /\ i = FirstFree(voids)
    /\ LET fail(e) == [IdleVoid EXCEPT !.pc = "failed", !.doc = d, !.error = e]
       IN voids' = [voids EXCEPT ![i] =
            IF ~FindDoc(d, tenantId) THEN fail("Documento no encontrado")
            ELSE IF docs[d].status # "accepted"
                THEN fail("Solo se pueden anular documentos aceptados")
            ELSE LET elapsed == now - docs[d].issueDate
                     f == [fail("Use una Nota de Credito") EXCEPT !.elapsed = elapsed]
                 IN IF daysSinceIssue(elapsed) > VoidWindowDays
                    THEN f
                    ELSE [f EXCEPT !.pc = "write", !.error = None]]
    /\ UNCHANGED <<docs, events, series, allocated, sends, notes, ret, now, call,
                 request, calc, session,
                 connections, controllers, lastEventId, client>>

\* update documents set status = 'voided' where id = id
VoidWrite(i) ==
    /\ voids[i].pc = "write"
    /\ docs' = [docs EXCEPT ![voids[i].doc].status = "voided"]
    /\ voids' = [voids EXCEPT ![i].pc = "event"]
    /\ UNCHANGED <<events, series, allocated, sends, notes, ret, now, call,
                 request, calc, session,
                 connections, controllers, lastEventId, client>>

\* insert into document_events ... 'voided'; return { success: true }
VoidEvent(i) ==
    /\ voids[i].pc = "event"
    /\ events' = [events EXCEPT ![voids[i].doc] = Insert(@, "voided")]
    /\ voids' = [voids EXCEPT ![i].pc = "done"]
    /\ UNCHANGED <<docs, series, allocated, sends, notes, ret, now, call,
                 request, calc, session,
                 connections, controllers, lastEventId, client>>

----------------------------------------------------------------------------
\* the clock advances by half a day
Tick ==
    /\ now < MaxNow
    /\ now' = now + 1
    /\ UNCHANGED <<docs, events, series, allocated, sends, voids, notes, ret, call,
                 request, calc, session,
                 connections, controllers, lastEventId, client>>

(* The lifecycle of the stored documents: the executions of
   sendDocumentToSunat, resendDocument and voidDocument, and the clock *)
Next ==
    \/ \E t \in Tenants, d \in DocIds : resendDocument(t, d)
    \/ \E d \in DocIds : SendCall(d)
    \/ \E i \in 1..MaxSends : SendMarkPending(i)
    \/ \E i \in 1..MaxSends,
          o \in {"throws", "response"} \X BOOLEAN \X (SunatStatuses \cup {None}) :
            SendCallAdapter(i, o)
    \/ \E i \in 1..MaxSends : SendPersist(i)
    \/ \E i \in 1..MaxSends : SendEvent(i)
    \/ \E i \in 1..MaxSends : SendCatch(i)
    \/ \E i \in 1..MaxVoids, t \in Tenants, d \in DocIds : VoidCheck(i, t, d)
    \/ \E i \in 1..MaxVoids : VoidWrite(i)
    \/ \E i \in 1..MaxVoids : VoidEvent(i)
    \/ Tick

Spec == Init /\ [][Next]_vars

----------------------------------------------------------------------------
(* Document creation: concurrent createInvoice and createNote calls over a
   database whose first document is in any of the states the lifecycle
   leaves a document in *)

\* status and sunatStatus of a stored document
StoredStates ==
    {<<"draft", None>>, <<"pending", None>>, <<"accepted", "accepted">>,
     <<"rejected", "rejected">>, <<"rejected", "exception">>,
     <<"voided", "accepted">>}

InitCreate ==
    /\ \E st \in StoredStates :
          docs = (1 :> [InitialDocument EXCEPT !.status = st[1], !.sunatStatus = st[2]])
    /\ events = [d \in DocIds |-> IF d = 1 THEN Insert(NoEvents, "created") ELSE NoEvents]
    /\ series = [r \in SeriesRows |-> IF r[2] = "F001" THEN 1 ELSE 0]
    /\ allocated = [r \in SeriesRows |-> IF r[2] = "F001" THEN <<1>> ELSE <<>>]
    /\ sends = [i \in 1..MaxSends |-> IdleSend]
    /\ voids = [i \in 1..MaxVoids |-> IdleVoid]
    /\ notes = [i \in 1..MaxNotes |-> IdleNote]
    /\ ret = [op |-> None, ok |-> FALSE, error |-> None]
    /\ now = 0
    /\ call = NoCall
    /\ request = NoRequest
    /\ calc = NoCalc
    /\ session = [tenantId |-> "t1", role |-> "admin"]
    /\ RealtimeIdle

NextCreate ==
    \/ \E t \in Tenants, ty \in {"01", "03"}, c \in CustomerIds,
          sc \in SeriesCodes \cup {None, "X999"} :
            createInvoice(t, ty, c, sc)
    \/ \E i \in 1..MaxNotes, t \in Tenants, d \in DocIds,
          sc \in SeriesCodes \cup {None, "X999"} :
            NoteCheck(i, t, d, sc)
    \/ \E i \in 1..MaxNotes : NoteAlloc(i)
    \/ \E i \in 1..MaxNotes, ty \in NoteTypes, s \in BOOLEAN, commit \in BOOLEAN :
            NoteInsert(i, ty, s, commit)

SpecCreate == InitCreate /\ [][NextCreate]_vars

----------------------------------------------------------------------------
(* The adapters' public methods, called with every document and every
   behaviour of the network *)

Called(adapter, method, document, certOk, forceStatus, out, result) ==
    [adapter |-> adapter, method |-> method, document |-> document,
     certOk |-> certOk, forceStatus |-> forceStatus, out |-> out,
     result |-> result]

DirectCall(method, document, certOk, out) ==
    /\ UNCHANGED <<docs, events, series, allocated, sends, voids, notes, ret, now,
                 request, calc, session,
                 connections, controllers, lastEventId, client>>
    /\ call' = Called("direct", method, document, certOk, None, out,
           IF method = "sendDocument" THEN DirectSendDocument(document, certOk, out)
           ELSE IF method = "queryStatus" THEN DirectQueryStatus(out)
           ELSE DirectVoidDocument(certOk, out))

NubefactCall(method, document, out) ==
    /\ UNCHANGED <<docs, events, series, allocated, sends, voids, notes, ret, now,
                 request, calc, session,
                 connections, controllers, lastEventId, client>>
    /\ call' = Called("nubefact", method, document, TRUE, None, out,
           IF method = "sendDocument" THEN NubefactSendDocument(document, out)
           ELSE IF method = "queryStatus" THEN NubefactQueryStatus
           ELSE NubefactVoidDocument(out))

MockCall(method, document, forceStatus) ==
    /\ UNCHANGED <<docs, events, series, allocated, sends, voids, notes, ret, now,
                 request, calc, session,
                 connections, controllers, lastEventId, client>>
    /\ call' = Called("mock", method, document, TRUE, forceStatus, NoOutcome,
           IF method = "sendDocument" THEN MockSendDocument(document, forceStatus)
           ELSE IF method = "queryStatus" THEN MockQueryStatus
           ELSE MockVoidDocument)

Methods == {"sendDocument", "queryStatus", "voidDocument"}

NextAdapter ==
    \/ \E m \in Methods, document \in AdapterDocs, co \in BOOLEAN,
          so \in SoapOutcomes : DirectCall(m, document, co, so)
    \/ \E m \in Methods, document \in AdapterDocs, ro \in RestOutcomes :
            NubefactCall(m, document, ro)
    \/ \E m \in Methods, document \in AdapterDocs, f \in ForceStatuses :
            MockCall(m, document, f)

SpecAdapter == Init /\ [][NextAdapter]_vars

----------------------------------------------------------------------------
(* Properties of the document lifecycle (Spec) *)

\* an execution of sendDocumentToSunat stores the adapter's answer
Persists(i) == sends[i].pc = "persist" /\ sends'[i].pc = "event"

\* an execution of voidDocument writes the status 'voided'
WritesVoided(i) == voids[i].pc = "write" /\ voids'[i].pc = "event"

\* C1: once a document's status is 'accepted', no step of any document
\* action changes its status or its stored SUNAT status, except that
\* voidDocument may move the status to 'voided'.
C1_AcceptedOnlyBecomesVoided ==
    [][\A d \in DOMAIN docs :
          docs[d].status = "accepted" =>
              /\ docs'[d].sunatStatus = docs[d].sunatStatus
              /\ \/ docs'[d].status = "accepted"
                 \/ /\ docs'[d].status = "voided"
                    /\ \E i \in 1..MaxVoids : WritesVoided(i) /\ voids[i].doc = d]_vars

C5_VoidsOnlyAccepted ==
    [][/\ \A i \in 1..MaxVoids :
             WritesVoided(i) => docs[voids[i].doc].status = "accepted"
       /\ \A i \in 1..MaxVoids :
             voids'[i].pc = "failed" /\ voids[i].pc # "failed"
                 => docs' = docs /\ events' = events]_vars

\* C6: voidDocument gets past its checks only when at most 7 days (7 x 24
\* hours) have elapsed between the issue date and the call.
C6_VoidWithinSevenDays ==
    \A i \in 1..MaxVoids :
        voids[i].pc \in {"write", "event", "done"}
            => voids[i].elapsed <= VoidWindowDays * HalfDaysPerDay

\* C7: a document is handed to adapter.sendDocument only after a
\* validateTotals check of it returned valid.
C7_SentOnlyAfterValidTotals ==
    \A i \in 1..MaxSends :
        sends[i].pc = "persist" => docs[sends[i].doc].totalsChecked

----------------------------------------------------------------------------
(* Properties of document creation (SpecCreate) *)

\* C4: getNextCorrelative never returns the same number twice for a series,
\* and no two documents of one tenant and series share a number.
C4_CorrelativesUnique ==
    /\ \A r \in SeriesRows : \A a, b \in 1..Len(allocated[r]) :
          a # b => allocated[r][a] # allocated[r][b]
    /\ \A d, e \in DOMAIN docs :
          (d # e /\ docs[d].tenantId = docs[e].tenantId
                 /\ docs[d].series = docs[e].series)
              => docs[d].number # docs[e].number

\* three numbers of one series have been returned to createInvoice and to
\* two createNote executions that ran concurrently: one of them has stored
\* its note, the other still holds its number, and createInvoice failed
\* after drawing its own
C4_Witness ==
    \E r \in SeriesRows :
        /\ Len(allocated[r]) >= 3
        /\ ret = Failure("createInvoice", "Error al crear documento")
        /\ \E i \in 1..MaxNotes :
              /\ notes[i].pc = "insert"
              /\ <<notes[i].tenantId, notes[i].series>> = r
        /\ \E d \in DOMAIN docs :
              /\ <<docs[d].tenantId, docs[d].series>> = r
              /\ docs[d].type \in NoteTypes

----------------------------------------------------------------------------
(* Properties of the adapters (SpecAdapter) *)

\* C8: sendDocument of every adapter rejects a document without tenant RUC,
\* without customer or without items, and issues no network request for it.
C8_InvalidDocumentRejectedOffline ==
    (call.method = "sendDocument" /\ ~validateDocument(call.document))
        => /\ ~call.result.net
           /\ call.result.threw \/ ~call.result.success

\* C9: when the transport of a request fails, the adapter's public method
\* returns a result with status 'exception' and does not throw.
C9_TransportFailureIsException ==
    (call.adapter # None /\ call.result.net /\ call.out.kind \in TransportFailures)
        => ~call.result.threw /\ call.result.status = "exception"

\* C10: NubefactAdapter.sendDocument and voidDocument return 'exception'
\* for a non-2xx response or a network failure, and 'rejected' only for a
\* 2xx response.
C10_NubefactRejectedOnlyOn2xx ==
    (call.adapter = "nubefact" /\ call.method \in {"sendDocument", "voidDocument"})
        => /\ call.out.kind \in {"network_error", "http_error_json", "http_error_nojson"}
                => call.result.status = "exception"
           /\ call.result.status = "rejected"
                => call.out.kind \in {"ok_nojson", "ok_errors", "ok_accepted",
                                     "ok_not_accepted"}

\* C11: when the certificate cannot be loaded, DirectAdapter.sendDocument
\* and voidDocument throw to the caller, before any network request, instead
\* of returning a result.
C11_CertificateFailureThrows ==
    (call.adapter = "direct" /\ call.method \in {"sendDocument", "voidDocument"}
        /\ ~call.certOk)
        => call.result.threw /\ ~call.result.net

----------------------------------------------------------------------------
(* A sendDocument call of the direct or of the nubefact adapter, followed
   step by step: the code up to the fetch, the await of the fetch, and the
   code after it.  Neither fetch call is given a signal or a timeout, so the
   await ends only when the network answers or fails. *)

NetworkAdapters == {"direct", "nubefact"}

\* TRUE when the call gets as far as its fetch
IssuesRequest(adapter, document, certOk) ==
    AdapterSend(adapter, document, certOk,
                [kind |-> "network_error", code |-> 0],
                [kind |-> "network_error", code |-> 0]).net

\* adapter.sendDocument(document) is called
RequestEnter(adapter, document, certOk) ==
    /\ request.pc \in {"idle", "returned"}
    /\ request' = [pc |-> "entered", adapter |-> adapter, certOk |-> certOk,
                   document |-> document, result |-> Thrown(FALSE)]
    /\ UNCHANGED <<docs, events, series, allocated, sends, voids, notes, ret,
                   now, call, calc, session,
                 connections, controllers, lastEventId, client>>

\* the code before the fetch: certificate, XML, signature, zip and envelope
\* for the direct adapter, the mapping to JSON for nubefact; then fetch(...)
RequestIssue ==
    /\ request.pc = "entered"
    /\ request' =
         IF IssuesRequest(request.adapter, request.document, request.certOk)
         THEN [request EXCEPT !.pc = "awaiting"]
         ELSE [request EXCEPT !.pc = "returned",
                 !.result = AdapterSend(request.adapter, request.document,
                                        request.certOk,
                                        [kind |-> "network_error", code |-> 0],
                                        [kind |-> "network_error", code |-> 0])]
    /\ UNCHANGED <<docs, events, series, allocated, sends, voids, notes, ret,
                   now, call, calc, session,
                 connections, controllers, lastEventId, client>>

\* the fetch settles with the network's answer or failure, and the method
\* returns
RequestAnswer(soap, rest) ==
    /\ request.pc = "awaiting"
    /\ request' = [request EXCEPT !.pc = "returned",
                     !.result = AdapterSend(request.adapter, request.document,
                                            request.certOk, soap, rest)]
    /\ UNCHANGED <<docs, events, series, allocated, sends, voids, notes, ret,
                   now, call, calc, session,
                 connections, controllers, lastEventId, client>>

NextRequest ==
    \/ \E a \in NetworkAdapters, document \in AdapterDocs, co \in BOOLEAN :
            RequestEnter(a, document, co)
    \/ RequestIssue
    \/ \E so \in SoapOutcomes, ro \in RestOutcomes : RequestAnswer(so, ro)

\* The adapter's own code runs on; the network is under no obligation.
SpecRequest == Init /\ [][NextRequest]_vars /\ WF_vars(RequestIssue)

\* C12: a sendDocument call that is waiting for the network eventually
\* returns, also when the network never answers.
C12_SendEventuallyReturns ==
    (request.pc = "awaiting") ~> (request.pc = "returned")

\* the direct adapter has received a CDR and classified its response code
CdrClassified ==
    /\ call.adapter = "direct"
    /\ call.method \in {"sendDocument", "queryStatus"}
    /\ call.out.kind = "cdr"
    /\ call.result.net
    /\ call.result.responseCode = CodeString(call.out.code)

\* C13: the direct adapter turns the CDR response code '0' into 'accepted',
\* 100 to 1999 into 'exception', 2000 to 3999 into 'rejected' and 4000 or
\* more into 'observed'.
C13_ResponseCodeMapping ==
    CdrClassified =>
        LET code == call.out.code
            status == call.result.status
        IN /\ call.result.responseCode = "0" => status = "accepted"
           /\ (code >= 100 /\ code <= 1999) => status = "exception"
           /\ (code >= 2000 /\ code <= 3999) => status = "rejected"
           /\ code >= 4000 => status = "observed"

\* sendDocument has classified the first code of the 'rejected' range
C13_Witness ==
    /\ CdrClassified
    /\ call.method = "sendDocument"
    /\ call.out.code = 2000
    /\ call.result.status = "rejected"

----------------------------------------------------------------------------
(* More properties of document creation (SpecCreate) *)

\* a createInvoice call whose customer and type pass the checks
InvoiceChecksPass(tenantId, type, customerId) ==
    /\ customerId \in CustomerIds
    /\ Customers[customerId].tenantId = tenantId
    /\ ~(type = "01" /\ Customers[customerId].documentType # "6")

\* the tables a creation persists into
Persisted == <<docs, events>>

\* C14: when no series row matches the tenant and the series code,
\* createInvoice and createNote return an error and persist no document and
\* no event.
C14_AllocationFailurePersistsNothing ==
    [][/\ \/ /\ ~ret'.ok /\ ret'.op = "createInvoice"
             /\ UNCHANGED <<Persisted, series, allocated>>
          \/ \A t \in Tenants, ty \in {"01", "03"}, c \in CustomerIds,
                sc \in SeriesCodes \cup {"X999"} :
                  ~(/\ <<t, sc>> \notin DOMAIN series
                    /\ InvoiceChecksPass(t, ty, c)
                    /\ createInvoice(t, ty, c, sc))
       /\ \A i \in 1..MaxNotes :
              (/\ notes[i].pc = "alloc"
               /\ <<notes[i].tenantId, notes[i].series>> \notin DOMAIN series
               /\ NoteAlloc(i))
                  => /\ ~ret'.ok /\ ret'.op = "createNote"
                     /\ notes'[i].pc = "done"
                     /\ UNCHANGED <<Persisted, series, allocated>>]_vars

\* a createNote call has failed at the allocation: it returned the error,
\* and no number has been drawn from any series
C14_Witness ==
    /\ ret = Failure("createNote", "Error al crear nota")
    /\ \E i \in 1..MaxNotes : notes[i].pc = "done"
    /\ \A r \in SeriesRows : series[r] = IF r[2] = "F001" THEN 1 ELSE 0
    /\ DOMAIN docs = {1}

\* the reference document is in the caller's tenant and is accepted
ReferenceAccepted(tenantId, ref) ==
    /\ ref \in DOMAIN docs
    /\ docs[ref].tenantId = tenantId
    /\ docs[ref].status = "accepted"

\* C15: createNote goes on to draw a number and to store a note only if the
\* referenced document is in the caller's tenant and is 'accepted' when
\* checked; a call that ends at the check returns an error, draws no
\* number and stores nothing.
C15_NoteOnlyOfAcceptedReference ==
    [][/\ \A i \in 1..MaxNotes :
            (notes[i].pc = "idle" /\ notes'[i].pc # "idle")
                => ReferenceAccepted(notes'[i].tenantId, notes'[i].ref)
       /\ (notes' = notes /\ ret' # ret /\ ret'.op = "createNote")
            => /\ ~ret'.ok
               /\ UNCHANGED <<Persisted, series, allocated, sends>>]_vars

\* a note of the accepted invoice is stored, and a createNote call that
\* named this note, which is not accepted, as its reference was refused
C15_Witness ==
    /\ ret = Failure("createNote",
                     "Solo se pueden emitir notas de documentos aceptados")
    /\ docs[1].status = "accepted"
    /\ \E d \in DOMAIN docs : docs[d].type \in NoteTypes

\* C16: a createInvoice call for a factura (type '01') whose customer is
\* not identified by a RUC (type '6') returns the error, draws no number
\* and stores no document.
C16_FacturaOnlyForRuc ==
    [][\/ /\ ret' = Failure("createInvoice",
                            "Facturas solo pueden emitirse a clientes con RUC")
          /\ UNCHANGED <<Persisted, series, allocated, sends>>
       \/ \A t \in Tenants, c \in CustomerIds :
             (Customers[c].tenantId = t /\ Customers[c].documentType # "6")
                 => \A sc \in SeriesCodes \cup {None, "X999"} :
                        ~createInvoice(t, "01", c, sc)]_vars

\* a factura for the customer identified by a DNI has just been refused,
\* after a boleta for the same customer got as far as drawing a number
C16_Witness ==
    /\ ret = Failure("createInvoice",
                     "Facturas solo pueden emitirse a clientes con RUC")
    /\ \E r \in SeriesRows : Len(allocated[r]) > (IF r[2] = "F001" THEN 1 ELSE 0)

(***************************************************************************)
(* calculateTotals.  Amounts are exact fractions of a sol, kept as         *)
(* integers that count 1/(59 * 100000) of a sol: prices, quantities and    *)
(* discounts are given in thousandths, the 18% tax of a thousandth is a    *)
(* whole number of hundred-thousandths, and the division of the global     *)
(* discount by 1.18 is a multiplication by 50/59.  Math.round(x * 100)     *)
(* is the nearest whole number of cents, a half going up.                  *)
(***************************************************************************)
MaxLines == 2        \* most line items handed to calculateTotals

IGV_RATE == 18       \* per cent

UnitsPerMill == 59 * 100
UnitsPerCent == 10 * UnitsPerMill

TaxTypes == {"10", "11", "20", "30", "40"}
Quantities == {1, 3}
UnitPrices == {14, 1000}          \* thousandths of a sol
Discounts == {0, 4}               \* thousandths of a sol
GlobalDiscounts == {0, 590}       \* thousandths of a sol

LineItems ==
    [quantity : Quantities, unitPrice : UnitPrices, discount : Discounts,
     taxType : TaxTypes]

LineItemLists == UNION {[1..n -> LineItems] : n \in 0..MaxLines}

NoTotals ==
    [taxableAmount |-> 0, exemptAmount |-> 0, unaffectedAmount |-> 0,
     freeAmount |-> 0, igv |-> 0, globalDiscount |-> 0, subtotal |-> 0,
     total |-> 0]

\* Math.round(x * 100), in cents
RoundCents(x) == (2 * x + UnitsPerCent) \div (2 * UnitsPerCent)

\* the call, with the accumulators as declared before items.map
TotalsEntered(items, globalDiscount) ==
    [fn |-> "calculateTotals", pc |-> "map", items |-> items,
     globalDiscount |-> globalDiscount * UnitsPerMill, index |-> 1,
     taxableAmount |-> 0, exemptAmount |-> 0, unaffectedAmount |-> 0,
     freeAmount |-> 0, igvAmount |-> 0, result |-> NoTotals]

\* one call of the items.map callback
TotalsMapItem ==
    /\ calc.fn = "calculateTotals" /\ calc.pc = "map"
    /\ calc.index <= Len(calc.items)
    /\ LET item == calc.items[calc.index]
           subtotal == (item.quantity * item.unitPrice - item.discount)
                          * UnitsPerMill
           taxAmount == (subtotal * IGV_RATE) \div 100
       IN calc' =
            [calc EXCEPT
               !.index = @ + 1,
               !.taxableAmount =
                   IF item.taxType \in {"10", "40"} THEN @ + subtotal ELSE @,
               !.igvAmount = IF item.taxType = "10" THEN @ + taxAmount ELSE @,
               !.freeAmount = IF item.taxType = "11" THEN @ + subtotal ELSE @,
               !.exemptAmount = IF item.taxType = "20" THEN @ + subtotal ELSE @,
               !.unaffectedAmount =
                   IF item.taxType = "30" THEN @ + subtotal ELSE @]
    /\ UNCHANGED <<docs, events, series, allocated, sends, voids, notes, ret,
                   now, call, request, session,
                 connections, controllers, lastEventId, client>>

\* the global discount, the sums and the rounding of the returned object
TotalsReturn ==
    /\ calc.fn = "calculateTotals" /\ calc.pc = "map"
    /\ calc.index > Len(calc.items)
    /\ LET discounted == calc.globalDiscount > 0 /\ calc.taxableAmount > 0
           net == (calc.globalDiscount * 50) \div 59
           taxableAmount ==
               IF discounted THEN calc.taxableAmount - net
               ELSE calc.taxableAmount
           igvAmount ==
               IF discounted
               THEN calc.igvAmount - (net * IGV_RATE) \div 100
               ELSE calc.igvAmount
           subtotal == taxableAmount + calc.exemptAmount + calc.unaffectedAmount
           total == subtotal + igvAmount
       IN calc' =
            [calc EXCEPT
               !.pc = "returned",
               !.result =
                  [taxableAmount |-> RoundCents(taxableAmount),
                   exemptAmount |-> RoundCents(calc.exemptAmount),
                   unaffectedAmount |-> RoundCents(calc.unaffectedAmount),
                   freeAmount |-> RoundCents(calc.freeAmount),
                   igv |-> RoundCents(igvAmount),
                   globalDiscount |-> RoundCents(calc.globalDiscount),
                   subtotal |-> RoundCents(subtotal),
                   total |-> RoundCents(total)]]
    /\ UNCHANGED <<docs, events, series, allocated, sends, voids, notes, ret,
                   now, call, request, session,
                 connections, controllers, lastEventId, client>>

InitTotals ==
    /\ docs = (1 :> InitialDocument)
    /\ events = [d \in DocIds |-> IF d = 1 THEN Insert(NoEvents, "created") ELSE NoEvents]
    /\ series = [r \in SeriesRows |-> IF r[2] = "F001" THEN 1 ELSE 0]
    /\ allocated = [r \in SeriesRows |-> IF r[2] = "F001" THEN <<1>> ELSE <<>>]
    /\ sends = [i \in 1..MaxSends |-> IdleSend]
    /\ voids = [i \in 1..MaxVoids |-> IdleVoid]
    /\ notes = [i \in 1..MaxNotes |-> IdleNote]
    /\ ret = [op |-> None, ok |-> FALSE, error |-> None]
    /\ now = 0
    /\ call = NoCall
    /\ request = NoRequest
    /\ session = [tenantId |-> "t1", role |-> "admin"]
    /\ RealtimeIdle
    /\ \E items \in LineItemLists, globalDiscount \in GlobalDiscounts :
          calc = TotalsEntered(items, globalDiscount)

NextTotals ==
    \/ TotalsMapItem
    \/ TotalsReturn

SpecTotals == InitTotals /\ [][NextTotals]_vars

\* C17: the rounded totals that calculateTotals returns add up: total is
\* taxableAmount + exemptAmount + unaffectedAmount + igv, the free amount
\* left out.
C17_TotalIsSumOfParts ==
    (calc.fn = "calculateTotals" /\ calc.pc = "returned") =>
        calc.result.total =
            calc.result.taxableAmount + calc.result.exemptAmount
              + calc.result.unaffectedAmount + calc.result.igv

(***************************************************************************)
(* validateRuc.  A string is a sequence of one-character strings.          *)
(***************************************************************************)
DigitChars == <<"0", "1", "2", "3", "4", "5", "6", "7", "8", "9">>

IsDigit(ch) == \E k \in DOMAIN DigitChars : DigitChars[k] = ch

\* parseInt(ch, 10) of one decimal digit
parseInt(ch) == (CHOOSE k \in DOMAIN DigitChars : DigitChars[k] = ch) - 1

\* /^[0-9]{11}$/.test(ruc)
ElevenDigits(ruc) == Len(ruc) = 11 /\ \A k \in 1..Len(ruc) : IsDigit(ruc[k])

validPrefixes == {<<"1", "0">>, <<"1", "5">>, <<"1", "7">>, <<"2", "0">>}

startsWith(s, prefix) ==
    Len(s) >= Len(prefix) /\ SubSeq(s, 1, Len(prefix)) = prefix

weights == <<5, 4, 3, 2, 7, 6, 5, 4, 3, 2>>

RECURSIVE WeightedSum(_, _)
\* sum after the loop has run for the first n characters
WeightedSum(ruc, n) ==
    IF n = 0 THEN 0
    ELSE WeightedSum(ruc, n - 1) + parseInt(ruc[n]) * weights[n]

validateRuc(ruc) ==
    IF ~ElevenDigits(ruc) THEN FALSE
    ELSE IF ~\E prefix \in validPrefixes : startsWith(ruc, prefix) THEN FALSE
    ELSE LET sum == WeightedSum(ruc, 10)
             remainder == sum % 11
             checkDigit == IF remainder = 0 THEN 0
                           ELSE IF remainder = 1 THEN 1
                           ELSE 11 - remainder
         IN checkDigit = parseInt(ruc[11])

\* the strings tried: two leading characters, a digit under weight 7, the two
\* last weighted characters and the check character, one of them possibly
\* not a digit; and the same strings one character shorter or longer
RucChars == {DigitChars[k] : k \in DOMAIN DigitChars} \cup {"X"}

RucInputs ==
    LET eleven ==
          {<<a, b, "0", "0", m, "0", "0", "0", c, d, e>> :
              a \in {"1", "2", "3"}, b \in {"0", "1", "5", "7"},
              m \in {"0", "9"}, c \in {"0", "4", "X"},
              d \in RucChars \ {"X"}, e \in RucChars}
    IN eleven \cup {SubSeq(s, 1, 10) : s \in eleven}
              \cup {Append(s, "0") : s \in eleven}

RucEntered(ruc) == [fn |-> "validateRuc", pc |-> "entered", ruc |-> ruc,
                    result |-> FALSE]

RucReturn ==
    /\ calc.fn = "validateRuc" /\ calc.pc = "entered"
    /\ calc' = [calc EXCEPT !.pc = "returned", !.result = validateRuc(calc.ruc)]
    /\ UNCHANGED <<docs, events, series, allocated, sends, voids, notes, ret,
                   now, call, request, session,
                 connections, controllers, lastEventId, client>>

InitRuc ==
    /\ docs = (1 :> InitialDocument)
    /\ events = [d \in DocIds |-> IF d = 1 THEN Insert(NoEvents, "created") ELSE NoEvents]
    /\ series = [r \in SeriesRows |-> IF r[2] = "F001" THEN 1 ELSE 0]
    /\ allocated = [r \in SeriesRows |-> IF r[2] = "F001" THEN <<1>> ELSE <<>>]
    /\ sends = [i \in 1..MaxSends |-> IdleSend]
    /\ voids = [i \in 1..MaxVoids |-> IdleVoid]
    /\ notes = [i \in 1..MaxNotes |-> IdleNote]
    /\ ret = [op |-> None, ok |-> FALSE, error |-> None]
    /\ now = 0
    /\ call = NoCall
    /\ request = NoRequest
    /\ session = [tenantId |-> "t1", role |-> "admin"]
    /\ RealtimeIdle
    /\ \E ruc \in RucInputs : calc = RucEntered(ruc)

NextRuc == RucReturn

SpecRuc == InitRuc /\ [][NextRuc]_vars

\* C18: validateRuc accepts a string exactly when it is 11 digits, starts
\* with 10, 15, 17 or 20, and its last digit is the check digit: 11 minus the
\* weighted sum modulo 11, where 10 is written 0 and 11 is written 1.
C18_RucAcceptedIffChecksum ==
    (calc.fn = "validateRuc" /\ calc.pc = "returned") =>
        LET ruc == calc.ruc
            digits == Len(ruc) = 11 /\ \A k \in 1..11 : IsDigit(ruc[k])
            value(k) == (CHOOSE n \in 1..10 : DigitChars[n] = ruc[k]) - 1
            w == <<5, 4, 3, 2, 7, 6, 5, 4, 3, 2>>
            RECURSIVE total(_)
            total(n) == IF n = 0 THEN 0 ELSE total(n - 1) + value(n) * w[n]
            check == 11 - (total(10) % 11)
            written == IF check = 10 THEN 0 ELSE IF check = 11 THEN 1 ELSE check
        IN calc.result <=>
             /\ digits
             /\ <<ruc[1], ruc[2]>> \in
                  {<<"1", "0">>, <<"1", "5">>, <<"1", "7">>, <<"2", "0">>}
             /\ written = value(11)

(***************************************************************************)
(* The actions on stored documents as one signed-in user calls them:       *)
(* getDocument, resendDocument and voidDocument read the session and work  *)
(* with its tenant; sendDocumentToSunat, an export of the same             *)
(* 'use server' module, takes any document id.  No action reads the role.  *)
(***************************************************************************)
USER_ROLES == {"owner", "admin", "accountant", "sales", "viewer"}

getDocument(tenantId, d) ==
    /\ ret' = IF FindDoc(d, tenantId) THEN Success("getDocument")
              ELSE Failure("getDocument", "Documento no encontrado")
    /\ UNCHANGED <<docs, events, series, allocated, sends, voids, notes, now,
                   call, request, calc, session,
                 connections, controllers, lastEventId, client>>

InitSession ==
    /\ docs = (1 :> InitialDocument)
    /\ events = [d \in DocIds |-> IF d = 1 THEN Insert(NoEvents, "created") ELSE NoEvents]
    /\ series = [r \in SeriesRows |-> IF r[2] = "F001" THEN 1 ELSE 0]
    /\ allocated = [r \in SeriesRows |-> IF r[2] = "F001" THEN <<1>> ELSE <<>>]
    /\ sends = [i \in 1..MaxSends |-> IdleSend]
    /\ voids = [i \in 1..MaxVoids |-> IdleVoid]
    /\ notes = [i \in 1..MaxNotes |-> IdleNote]
    /\ ret = [op |-> None, ok |-> FALSE, error |-> None]
    /\ now = 0
    /\ call = NoCall
    /\ request = NoRequest
    /\ calc = NoCalc
    /\ session \in [tenantId : Tenants, role : USER_ROLES]
    /\ RealtimeIdle

NextSession ==
    \/ \E d \in DocIds : getDocument(session.tenantId, d)
    \/ \E d \in DocIds : resendDocument(session.tenantId, d)
    \/ \E d \in DocIds : SendCall(d)
    \/ \E i \in 1..MaxSends : SendMarkPending(i)
    \/ \E i \in 1..MaxSends,
          o \in {"throws", "response"} \X BOOLEAN \X (SunatStatuses \cup {None}) :
            SendCallAdapter(i, o)
    \/ \E i \in 1..MaxSends : SendPersist(i)
    \/ \E i \in 1..MaxSends : SendEvent(i)
    \/ \E i \in 1..MaxSends : SendCatch(i)
    \/ \E i \in 1..MaxVoids, d \in DocIds : VoidCheck(i, session.tenantId, d)
    \/ \E i \in 1..MaxVoids : VoidWrite(i)
    \/ \E i \in 1..MaxVoids : VoidEvent(i)
    \/ Tick

SpecSession == InitSession /\ [][NextSession]_vars

\* C19: whatever the signed-in user calls, only documents, document events
\* and series of the session's own tenant are written.
C19_OnlyOwnTenantWritten ==
    [][/\ \A d \in DOMAIN docs :
            docs'[d] # docs[d] => docs[d].tenantId = session.tenantId
       /\ \A d \in DOMAIN docs' \ DOMAIN docs :
            docs'[d].tenantId = session.tenantId
       /\ \A d \in DocIds :
            events'[d] # events[d] =>
                d \in DOMAIN docs' /\ docs'[d].tenantId = session.tenantId
       /\ \A r \in SeriesRows :
            series'[r] # series[r] => r[1] = session.tenantId]_vars

\* C20: a user whose role is 'viewer' creates, sends, resends and voids
\* nothing: no document and no document event is written on their calls.
C20_ViewerWritesNothing ==
    [][session.role = "viewer" => UNCHANGED <<docs, events>>]_vars

----------------------------------------------------------------------------
(* More properties of the life of a stored document *)

\* C21: resendDocument schedules a submission only of a document whose status
\* is 'draft' or 'rejected'; for a document of the caller that is pending,
\* accepted or voided it returns an error and schedules nothing.
C21_ResendOnlyDraftOrRejected ==
    [][\A t \in Tenants, d \in DocIds :
          (FindDoc(d, t) /\ resendDocument(t, d)) =>
              IF docs[d].status \in {"draft", "rejected"}
              THEN ret'.ok /\ sends' = Schedule(sends, d)
              ELSE ~ret'.ok /\ ret'.op = "resendDocument" /\ sends' = sends]_vars

C21_Witness ==
    /\ ret = Failure("resendDocument",
                     "Solo se pueden reenviar documentos en borrador o rechazados")
    /\ \E d \in DOMAIN docs : docs[d].status = "accepted"
    /\ \E i \in 1..MaxSends : sends[i].pc = "idle"

(***************************************************************************)
(* The SSE connection manager and the streams that register with it.       *)
(* An event is known by its number; the ping a stream enqueues is number   *)
(* 0, and lastEventId counts the events broadcast has encoded, which is    *)
(* what a controller can receive.                                          *)
(***************************************************************************)
MaxEvents == 2       \* events broadcast to a tenant that has an entry

Ping == 0

\* this.connections.get(tenantId), the empty set standing for undefined
Registered(conns, tenantId) ==
    IF tenantId \in DOMAIN conns THEN conns[tenantId] ELSE {}

addConnection(conns, tenantId, controller) ==
    LET withSet == IF tenantId \notin DOMAIN conns
                   THEN conns @@ (tenantId :> {})
                   ELSE conns
    IN [withSet EXCEPT ![tenantId] = @ \cup {controller}]

KeepsEmptySet(conns, tenantId, controller) ==
    IF tenantId \in DOMAIN conns
    THEN [conns EXCEPT ![tenantId] = @ \ {controller}]
    ELSE conns

removeConnection(conns, tenantId, controller) ==
    IF tenantId \in DOMAIN conns
    THEN LET deleted == [conns EXCEPT ![tenantId] = @ \ {controller}]
         IN IF deleted[tenantId] = {}
            THEN [t \in DOMAIN conns \ {tenantId} |-> conns[t]]
            ELSE deleted
    ELSE conns

AllTenantsConnections(conns, tenantId) ==
    UNION {conns[t] : t \in DOMAIN conns}

\* the set broadcast iterates over
tenantConnections(conns, tenantId) == conns[tenantId]

\* controller.enqueue(data) throws on a closed stream
EnqueueThrows(controller) == controllers[controller].closed

RECURSIVE RemoveFailing(_, _, _)
\* the removeConnection calls of the catch blocks of one broadcast
RemoveFailing(conns, tenantId, failing) ==
    IF failing = {} THEN conns
    ELSE LET controller == CHOOSE k \in failing : TRUE
         IN RemoveFailing(removeConnection(conns, tenantId, controller),
                          tenantId, failing \ {controller})

\* sendEvent(tenantId, type, data): sseManager.broadcast(tenantId, event)
sendEvent(tenantId) ==
    /\ IF tenantId \notin DOMAIN connections
       THEN UNCHANGED <<connections, controllers, lastEventId>>
       ELSE LET targets == tenantConnections(connections, tenantId)
                failing == {k \in targets : EnqueueThrows(k)}
            IN /\ lastEventId < MaxEvents
               /\ lastEventId' = lastEventId + 1
               /\ controllers' =
                     [k \in Controllers |->
                        IF k \in targets \ failing
                        THEN [controllers[k] EXCEPT
                                !.enqueued = @ \cup {lastEventId + 1}]
                        ELSE controllers[k]]
               /\ connections' = RemoveFailing(connections, tenantId, failing)
    /\ UNCHANGED <<docs, events, series, allocated, sends, voids, notes, ret,
                   now, call, request, calc, session, client>>

\* sseManager.addConnection(tenantId, controller), sseManager being exported
AddConnection(tenantId, controller) ==
    /\ connections' = addConnection(connections, tenantId, controller)
    /\ UNCHANGED <<docs, events, series, allocated, sends, voids, notes, ret,
                   now, call, request, calc, session, controllers, lastEventId,
                   client>>

\* sseManager.removeConnection(tenantId, controller)
RemoveConnection(tenantId, controller) ==
    /\ connections' = removeConnection(connections, tenantId, controller)
    /\ UNCHANGED <<docs, events, series, allocated, sends, voids, notes, ret,
                   now, call, request, calc, session, controllers, lastEventId,
                   client>>

\* createSSEStream(tenantId): start(c) registers the controller and enqueues
\* the first ping.  The pings of the interval enqueue the same kind of
\* message or, on a closed stream, clear the interval: they change nothing
\* here.
StreamStart(tenantId, controller) ==
    /\ controllers[controller] = NewController
    /\ connections' = addConnection(connections, tenantId, controller)
    /\ controllers' = [controllers EXCEPT ![controller] =
                          [@ EXCEPT !.tenantId = tenantId,
                                    !.enqueued = @ \cup {Ping}]]
    /\ UNCHANGED <<docs, events, series, allocated, sends, voids, notes, ret,
                   now, call, request, calc, session, lastEventId, client>>

\* the reader cancels the stream: cancel() of createSSEStream
StreamCancel(controller) ==
    /\ controllers[controller].tenantId # None
    /\ ~controllers[controller].closed
    /\ controllers' = [controllers EXCEPT ![controller].closed = TRUE]
    /\ connections' = removeConnection(connections,
                                       controllers[controller].tenantId,
                                       controller)
    /\ UNCHANGED <<docs, events, series, allocated, sends, voids, notes, ret,
                   now, call, request, calc, session, lastEventId, client>>

\* the runtime closes or errors a stream without calling cancel()
StreamCloses(controller) ==
    /\ ~controllers[controller].closed
    /\ controllers' = [controllers EXCEPT ![controller].closed = TRUE]
    /\ UNCHANGED <<docs, events, series, allocated, sends, voids, notes, ret,
                   now, call, request, calc, session, connections, lastEventId,
                   client>>

NextRealtime ==
    \/ \E t \in Tenants, k \in Controllers : StreamStart(t, k)
    \/ \E k \in Controllers : StreamCancel(k)
    \/ \E k \in Controllers : StreamCloses(k)
    \/ \E t \in Tenants, k \in Controllers : AddConnection(t, k)
    \/ \E t \in Tenants, k \in Controllers : RemoveConnection(t, k)
    \/ \E t \in Tenants : sendEvent(t)

SpecRealtime == Init /\ [][NextRealtime]_vars

C26_RegistryIsAddedMinusRemoved ==
    [][/\ \A t \in DOMAIN connections' : connections'[t] # {}
       /\ \A t \in Tenants :
            LET before == Registered(connections, t)
                after == Registered(connections', t)
                others == \A u \in Tenants \ {t} :
                             Registered(connections', u) = Registered(connections, u)
            IN /\ \A k \in Controllers :
                    /\ (AddConnection(t, k) \/ StreamStart(t, k)) =>
                           after = before \cup {k} /\ others
                    /\ (\/ RemoveConnection(t, k)
                        \/ controllers[k].tenantId = t /\ StreamCancel(k)) =>
                           after = before \ {k} /\ others
               /\ sendEvent(t) =>
                    after = {k \in before : ~controllers[k].closed} /\ others
       /\ (\A k \in Controllers : StreamCloses(k) => connections' = connections)]_vars

C26_Witness ==
    \E t \in Tenants :
        /\ t \notin DOMAIN connections
        /\ \E k \in Controllers :
              controllers[k].closed /\ controllers[k].tenantId = t
        /\ \E u \in DOMAIN connections, k \in Controllers :
              k \in connections[u] /\ lastEventId \in controllers[k].enqueued
        /\ lastEventId >= 1

\* C23: 'voided' is terminal: once a document is voided no action, and in
\* particular no sendDocumentToSunat scheduled before the void, changes its
\* status again.
C23_VoidedIsTerminal ==
    [][\A d \in DOMAIN docs :
          docs[d].status = "voided" => docs'[d].status = "voided"]_vars

\* C24: a createInvoice call that returns success: false leaves the series
\* counter as it was: a failed creation consumes no correlative number.
C24_FailedCreationKeepsCounter ==
    [][(notes' = notes /\ ret'.op = "createInvoice" /\ ~ret'.ok) =>
            series' = series]_vars

\* What runs on by itself in sendDocumentToSunat: the statements of the
\* function and its queries.  The answer to adapter.sendDocument comes from
\* the network, which has no obligation to give one.
SendFairness ==
    \A i \in 1..MaxSends :
        /\ WF_vars(SendMarkPending(i))
        /\ WF_vars(SendPersist(i))
        /\ WF_vars(SendEvent(i))
        /\ WF_vars(SendCatch(i))

SpecSendFair == Init /\ [][Next]_vars /\ SendFairness

MaxOpened == 6       \* EventSource objects one client creates

maxReconnectAttempts == 5

\* connect(), on the fields of the client
connect(c) ==
    IF c.eventSource # None THEN c
    ELSE [c EXCEPT !.eventSource = "connecting", !.opened = @ + 1]

\* disconnect(), on the fields of the client
disconnect(c) ==
    IF c.eventSource # None THEN [c EXCEPT !.eventSource = None] ELSE c

\* whether connect() would create an EventSource beyond the bound
OpensTooMany(c) == c.eventSource = None /\ c.opened >= MaxOpened

\* the page calls client.connect()
ClientConnect ==
    /\ ~OpensTooMany(client)
    /\ client' = [connect(client) EXCEPT !.userCall = "connect"]
    /\ UNCHANGED <<docs, events, series, allocated, sends, voids, notes, ret,
                   now, call, request, calc, session, connections, controllers,
                   lastEventId>>

\* the page calls client.disconnect()
ClientDisconnect ==
    /\ client' = [disconnect(client) EXCEPT !.userCall = "disconnect"]
    /\ UNCHANGED <<docs, events, series, allocated, sends, voids, notes, ret,
                   now, call, request, calc, session, connections, controllers,
                   lastEventId>>

\* eventSource.onopen
OnOpen ==
    /\ client.eventSource = "connecting"
    /\ client' = [client EXCEPT !.eventSource = "open", !.reconnectAttempts = 0]
    /\ UNCHANGED <<docs, events, series, allocated, sends, voids, notes, ret,
                   now, call, request, calc, session, connections, controllers,
                   lastEventId>>

\* eventSource.onerror: handleReconnect().  At the maximum of attempts the
\* EventSource is kept and retries by itself.
OnError ==
    /\ client.eventSource # None
    /\ client' =
         IF client.reconnectAttempts >= maxReconnectAttempts
         THEN [client EXCEPT !.eventSource = "connecting"]
         ELSE [disconnect(client) EXCEPT !.reconnectAttempts = @ + 1,
                                         !.timers = @ + 1]
    /\ UNCHANGED <<docs, events, series, allocated, sends, voids, notes, ret,
                   now, call, request, calc, session, connections, controllers,
                   lastEventId>>

\* a callback handleReconnect gave to setTimeout runs: this.connect()
TimerFires ==
    /\ client.timers > 0
    /\ ~OpensTooMany(client)
    /\ client' = [connect(client) EXCEPT !.timers = @ - 1]
    /\ UNCHANGED <<docs, events, series, allocated, sends, voids, notes, ret,
                   now, call, request, calc, session, connections, controllers,
                   lastEventId>>

NextClient ==
    \/ ClientConnect
    \/ ClientDisconnect
    \/ OnOpen
    \/ OnError
    \/ TimerFires

SpecClient == Init /\ [][NextClient]_vars

\* C27: once the page has called disconnect(), the client creates no
\* EventSource until the page calls connect() again, even when a reconnect
\* timer was pending at the disconnect.
C27_NoEventSourceAfterDisconnect ==
    [][(client.userCall = "disconnect" /\ client'.opened > client.opened) =>
            client'.userCall = "connect"]_vars

====
